---- MODULE Spec2Model ----
(***************************************************************************)
(* Analysis/decision engine of the ETF Trend stock dashboard: the          *)
(* recommendation rating, the rationale checklist and the three-tier       *)
(* trade plan, as documented in "Stock Analysis API Flow" (section 3.4     *)
(* and 3.5).                                                               *)
(*                                                                         *)
(* Number encoding (all arithmetic is exact integer arithmetic):           *)
(*   prices, moving averages, ATR   : cents            (220.50 -> 22050)   *)
(*   entry / stop / take-profit     : 1/100 of a cent  (216.09 -> 2160900) *)
(*   momentum_60d                   : 1/10 of a percent   (18.5 -> 185)    *)
(*   volatility, RSI                : whole percent / whole points         *)
(***************************************************************************)
EXTENDS Integers, Sequences, FiniteSets

VARIABLES
    pc,             \* position of the request: "ready", "done" or "failed"
    current_price,  \* the symbol's current price
    ind,            \* the symbol's IndicatorSet (technicals)
    rec,            \* the recommendations emitted for the request (0 or 1)
    levels,         \* the PriceLevelSets emitted for the request (0 or 1)
    error,          \* the error the request failed with, or "none"
    prev,           \* the outcome of the previous request (0 or 1)
    history,        \* the price data: symbol -> its PriceSeries (0 or 1)
    reqs,           \* request id -> the request (operation, symbol, date)
    rpc,            \* request id -> the step the request is at
    work,           \* request id -> what the request has computed so far
    outcome,        \* request id -> the outcomes handed back (0 or 1)
    page            \* the dashboard page showing a response

vars ==
    <<pc, current_price, ind, rec, levels, error, prev,
      history, reqs, rpc, work, outcome, page>>

\* the variables of the request pipeline and of the dashboard
requestVars == <<history, reqs, rpc, work, outcome, page>>
\* the variables of the single-component specifications
componentVars == <<pc, current_price, ind, rec, levels, error, prev>>

\* no request is in the system and no page is open
NoRequests ==
    /\ history = <<>>
    /\ reqs = <<>>
    /\ rpc = <<>>
    /\ work = <<>>
    /\ outcome = <<>>
    /\ page = <<>>

----------------------------------------------------------------------------
(* Bounds of the explored inputs.                                          *)

\* half-width of the band of values explored around every threshold
Margin == 1
\* MACD histogram values explored: 0..MaxHist
MaxHist == 1
\* trade-plan prices explored: BasePrice * 1..MaxPriceSteps
MaxPriceSteps == 2
\* trade-plan ATR values explored: -1..MaxAtr
MaxAtr == 3

Around(t) == (t - Margin)..(t + Margin)

----------------------------------------------------------------------------
(* 3.5 Trade plan                                                          *)

\* a percentage p of a price in cents is price * p hundredths of a cent
PctDenominator == 100
\* moderate entry: current price x 0.98 (2% pullback)
ModeratePct == 98
\* conservative entry: current price x 0.93 (7% pullback)
ConservativePct == 93
\* stop-loss ATR multiples (tight / normal / loose)
StopMultTight == 2
StopMultNormal == 3
StopMultLoose == 4
\* take-profit ATR multiples (tp1 / tp2 / tp3)
TpMult1 == 3
TpMult2 == 6
TpMult3 == 10

EntryAggressive(ma20) == ma20 * PctDenominator
EntryModerate(price) == price * ModeratePct
\* a conservative entry 7% above the price instead of 7% below
EntryConservativeAbove(price) == price * (2 * PctDenominator - ConservativePct)
EntryConservative(price) == price * ConservativePct

\* stop loss: the moderate entry minus a multiple of the ATR
\* (variants: anchored to the live quote; added instead of subtracted)
StopLevelWrongAnchor(price, atr14, mult) ==
    price * PctDenominator - mult * atr14 * PctDenominator
StopLevelAbove(price, atr14, mult) ==
    EntryModerate(price) + mult * atr14 * PctDenominator
StopLevel(price, atr14, mult) ==
    EntryModerate(price) - mult * atr14 * PctDenominator

\* take profit: the moderate entry plus a multiple of the ATR
\* (variant: subtracted instead of added)
TpLevelBelow(price, atr14, mult) ==
    EntryModerate(price) - mult * atr14 * PctDenominator
TpLevel(price, atr14, mult) ==
    EntryModerate(price) + mult * atr14 * PctDenominator

\* ATR must be strictly positive for the plan to be generated
\* (variant: a zero ATR is let through)
DegenerateVolatilityNegativeOnly(atr14) == atr14 < 0
DegenerateVolatility(atr14) == atr14 <= 0

TradePlanGenerator(price, ma20, atr14) ==
    [entry |-> [aggressive   |-> EntryAggressive(ma20),
                moderate     |-> EntryModerate(price),
                conservative |-> EntryConservative(price)],
     stop  |-> [tight  |-> StopLevel(price, atr14, StopMultTight),
                normal |-> StopLevel(price, atr14, StopMultNormal),
                loose  |-> StopLevel(price, atr14, StopMultLoose)],
     tp    |-> [tp1 |-> TpLevel(price, atr14, TpMult1),
                tp2 |-> TpLevel(price, atr14, TpMult2),
                tp3 |-> TpLevel(price, atr14, TpMult3)]]

----------------------------------------------------------------------------
(* 3.4 Logic and recommendation                                            *)

\* rating thresholds on momentum_60d, in tenths of a percent
StrongBuyMomentum == 100
BuyMomentum == 50
\* scores, in tenths
StrongBuyScore == 8
BuyScore == 6
HoldScore == 3

\* rationale thresholds
VeryStrongMomentum == 150
PositiveMomentum == 50
WeakMomentum == -100
LowVolatility == 25
HighVolatility == 35
RsiOverbought == 70
RsiOversold == 30

\* the rating algorithm: first match wins
\* (variants: non-strict comparisons; the "buy" momentum test inverted)
RatingNonStrict(momentum_60d, price, ma50, ma200) ==
    IF momentum_60d >= StrongBuyMomentum /\ price >= ma200
    THEN [label |-> "strong buy", score |-> StrongBuyScore]
    ELSE IF momentum_60d >= BuyMomentum /\ price >= ma50
    THEN [label |-> "buy", score |-> BuyScore]
    ELSE [label |-> "hold/watch", score |-> HoldScore]
RatingBuyInverted(momentum_60d, price, ma50, ma200) ==
    IF momentum_60d > StrongBuyMomentum /\ price > ma200
    THEN [label |-> "strong buy", score |-> StrongBuyScore]
    ELSE IF momentum_60d < BuyMomentum /\ price > ma50
    THEN [label |-> "buy", score |-> BuyScore]
    ELSE [label |-> "hold/watch", score |-> HoldScore]
Rating(momentum_60d, price, ma50, ma200) ==
    IF momentum_60d > StrongBuyMomentum /\ price > ma200
    THEN [label |-> "strong buy", score |-> StrongBuyScore]
    ELSE IF momentum_60d > BuyMomentum /\ price > ma50
    THEN [label |-> "buy", score |-> BuyScore]
    ELSE [label |-> "hold/watch", score |-> HoldScore]

\* the rows of the rationale table, one operator per dimension
MomentumClause(momentum_60d) ==
    IF momentum_60d > VeryStrongMomentum THEN <<"very strong momentum">>
    ELSE IF momentum_60d > PositiveMomentum THEN <<"positive momentum">>
    ELSE IF momentum_60d < WeakMomentum THEN <<"weak momentum">>
    ELSE <<>>

\* (variant: the low-volatility band includes 25)
VolatilityClauseNonStrict(volatility) ==
    IF volatility <= LowVolatility THEN <<"low volatility / high quality">>
    ELSE IF volatility > HighVolatility THEN <<"high volatility">>
    ELSE <<>>
VolatilityClause(volatility) ==
    IF volatility < LowVolatility THEN <<"low volatility / high quality">>
    ELSE IF volatility > HighVolatility THEN <<"high volatility">>
    ELSE <<>>

\* (variant: the two trend texts exchanged)
TrendClauseInverted(price, ma200) ==
    IF price > ma200 THEN <<"weak trend">>
    ELSE IF price < ma200 THEN <<"strong trend">>
    ELSE <<>>
TrendClause(price, ma200) ==
    IF price > ma200 THEN <<"strong trend">>
    ELSE IF price < ma200 THEN <<"weak trend">>
    ELSE <<>>

RsiClause(rsi14) ==
    IF rsi14 > RsiOverbought THEN <<"overbought">>
    ELSE IF rsi14 < RsiOversold THEN <<"oversold">>
    ELSE <<>>

MacdClause(macd_hist, macd_hist_prev) ==
    IF macd_hist > macd_hist_prev THEN <<"momentum strengthening">>
    ELSE <<>>

\* the checklist, evaluated top to bottom; the clauses are joined in order
Rationale(i, price) ==
    MomentumClause(i.momentum_60d)
        \o VolatilityClause(i.volatility)
        \o TrendClause(price, i.ma200)
        \o RsiClause(i.rsi14)
        \o MacdClause(i.macd_hist, i.macd_hist_prev)

RecommendationEngine(i, price) ==
    LET rating == Rating(i.momentum_60d, price, i.ma50, i.ma200) IN
    [label     |-> rating.label,
     score     |-> rating.score,
     rationale |-> Rationale(i, price)]

----------------------------------------------------------------------------
(* Inputs of the trade-plan specification.                                 *)

BasePrice == 100
\* the documented response example: current_price 220.5, atr 4.5, ma20 215.3
ScenarioPrice == 22050
ScenarioAtr == 450
ScenarioMa20 == 21530

PlanPrices == {BasePrice * k : k \in 1..MaxPriceSteps} \cup {ScenarioPrice}
\* moving averages below the conservative entry, between the entries, at the
\* moderate entry and above the current price
PlanMa20s ==
    {(p * f) \div PctDenominator : p \in PlanPrices, f \in {90, 95, 98, 105}}
        \cup {ScenarioMa20}
PlanAtrs == (-1..MaxAtr) \cup {ScenarioAtr}

NoIndicators ==
    [ma20 |-> 0, ma50 |-> 0, ma200 |-> 0, momentum_60d |-> 0,
     volatility |-> 0, atr14 |-> 0, rsi14 |-> 0,
     macd_hist |-> 0, macd_hist_prev |-> 0]

InitPlan ==
    /\ pc = "ready"
    /\ current_price \in PlanPrices
    /\ \E m \in PlanMa20s, a \in PlanAtrs :
          ind = [NoIndicators EXCEPT !.ma20 = m, !.atr14 = a]
    /\ rec = {}
    /\ levels = {}
    /\ error = "none"
    /\ prev = {}
    /\ NoRequests

\* the generator emits the PriceLevelSet of the request
GeneratePlan ==
    /\ pc = "ready"
    /\ ~DegenerateVolatility(ind.atr14)
    /\ levels' = {TradePlanGenerator(current_price, ind.ma20, ind.atr14)}
    /\ pc' = "done"
    /\ UNCHANGED <<current_price, ind, rec, error, prev>>
    /\ UNCHANGED requestVars

\* the generator fails instead of emitting coincident levels
FailDegenerateVolatility ==
    /\ pc = "ready"
    /\ DegenerateVolatility(ind.atr14)
    /\ error' = "DegenerateVolatility"
    /\ pc' = "failed"
    /\ UNCHANGED <<current_price, ind, rec, levels, prev>>
    /\ UNCHANGED requestVars

NextPlan == GeneratePlan \/ FailDegenerateVolatility

SpecPlan == InitPlan /\ [][NextPlan]_vars

----------------------------------------------------------------------------
(* Inputs of the recommendation specifications.                            *)

\* the documented response example: momentum 18.5%, ma200 190.2, rsi 72.5
ScenarioMomentum == 185
ScenarioMa200 == 19020

Momenta ==
    Around(WeakMomentum) \cup Around(PositiveMomentum)
        \cup Around(StrongBuyMomentum) \cup Around(VeryStrongMomentum)
        \cup {ScenarioMomentum}
RecPrices == {BasePrice, ScenarioPrice}
RecMAs == Around(BasePrice) \cup {ScenarioMa200}
Volatilities ==
    {LowVolatility - 1, LowVolatility, HighVolatility, HighVolatility + 1}
Rsis == {RsiOversold - 1, RsiOversold, RsiOverbought, RsiOverbought + 1}
Hists == 0..MaxHist

InitRec ==
    /\ pc = "ready"
    /\ current_price \in RecPrices
    /\ \E m \in Momenta, a \in RecMAs, b \in RecMAs, v \in Volatilities,
          r \in Rsis, h \in Hists, hp \in Hists :
          ind = [NoIndicators EXCEPT
                    !.momentum_60d = m, !.ma50 = a, !.ma200 = b,
                    !.volatility = v, !.rsi14 = r,
                    !.macd_hist = h, !.macd_hist_prev = hp]
    /\ rec = {}
    /\ levels = {}
    /\ error = "none"
    /\ prev = {}
    /\ NoRequests

\* the engine emits label, score and rationale of the request
Recommend ==
    /\ pc = "ready"
    /\ rec' = {RecommendationEngine(ind, current_price)}
    /\ pc' = "done"
    /\ UNCHANGED <<current_price, ind, levels, error, prev>>
    /\ UNCHANGED requestVars

NextRec == Recommend

SpecRec == InitRec /\ [][NextRec]_vars

\* Two requests in a row that differ in momentum_60d only.  The rationale
\* inputs take two profiles: a quiet one and a loud one.
InitMono ==
    /\ pc = "ready"
    /\ current_price \in RecPrices
    /\ \E m \in Momenta, a \in RecMAs, b \in RecMAs, loud \in BOOLEAN :
          ind = [NoIndicators EXCEPT
                    !.momentum_60d = m, !.ma50 = a, !.ma200 = b,
                    !.volatility =
                        IF loud THEN HighVolatility + 1 ELSE LowVolatility,
                    !.rsi14 = IF loud THEN RsiOverbought + 1 ELSE RsiOversold,
                    !.macd_hist = IF loud THEN MaxHist ELSE 0]
    /\ rec = {}
    /\ levels = {}
    /\ error = "none"
    /\ prev = {}
    /\ NoRequests

\* a second request arrives for the same symbol and date, with another
\* momentum_60d; the engine keeps nothing of the first one
Resubmit(m) ==
    /\ pc = "done"
    /\ prev = {}
    /\ m # ind.momentum_60d
    /\ prev' = {[ind |-> ind, price |-> current_price,
                 label |-> r.label, score |-> r.score] : r \in rec}
    /\ ind' = [ind EXCEPT !.momentum_60d = m]
    /\ rec' = {}
    /\ pc' = "ready"
    /\ UNCHANGED <<current_price, levels, error>>
    /\ UNCHANGED requestVars

NextMono == Recommend \/ (\E m \in Momenta : Resubmit(m))

SpecMono == InitMono /\ [][NextMono]_vars

----------------------------------------------------------------------------
(* Properties of the trade plan, checked under SpecPlan.                   *)

\* C2: every stop and take-profit level is entry.moderate (current_price x
\* 0.98) minus 2/3/4 x atr14 resp. plus 3/6/10 x atr14, never anchored to
\* current_price or ma20; entry.aggressive = ma20 and entry.conservative =
\* current_price x 0.93; for current_price 220.50 and atr14 4.5 this gives
\* entry.moderate 216.09, stop.normal 202.59 and tp1 229.59.
C2_LevelsAnchoredToModerate ==
    \A L \in levels :
        LET atr == ind.atr14 * 100 IN
        /\ L.entry.moderate = current_price * 98
        /\ L.entry.aggressive = ind.ma20 * 100
        /\ L.entry.conservative = current_price * 93
        /\ L.stop.tight = L.entry.moderate - 2 * atr
        /\ L.stop.normal = L.entry.moderate - 3 * atr
        /\ L.stop.loose = L.entry.moderate - 4 * atr
        /\ L.tp.tp1 = L.entry.moderate + 3 * atr
        /\ L.tp.tp2 = L.entry.moderate + 6 * atr
        /\ L.tp.tp3 = L.entry.moderate + 10 * atr
        /\ L.stop.normal # current_price * 100 - 3 * atr
        /\ L.tp.tp1 # current_price * 100 + 3 * atr
        /\ (current_price = 22050 /\ ind.atr14 = 450) =>
              /\ L.entry.moderate = 2160900
              /\ L.stop.normal = 2025900
              /\ L.tp.tp1 = 2295900

\* the documented scenario has been planned, with a ma20 away from the price
C2_Witness ==
    /\ pc = "done"
    /\ current_price = ScenarioPrice
    /\ ind.atr14 = ScenarioAtr
    /\ ind.ma20 = ScenarioMa20
    /\ \E L \in levels : L.stop.normal = 2025900

\* C3: whenever atr14 > 0 the emitted PriceLevelSet has
\* stop.tight > stop.normal > stop.loose and tp1 < tp2 < tp3.
C3_StopAndTpOrdered ==
    \A L \in levels :
        ind.atr14 > 0 =>
            /\ L.stop.tight > L.stop.normal
            /\ L.stop.normal > L.stop.loose
            /\ L.tp.tp1 < L.tp.tp2
            /\ L.tp.tp2 < L.tp.tp3

\* a plan has been emitted for the smallest positive ATR
C3_Witness == pc = "done" /\ ind.atr14 = 1 /\ levels # {}

\* C4: the generator fails with DegenerateVolatility if and only if
\* atr14 <= 0; then no PriceLevelSet is emitted; for atr14 > 0 one is
\* emitted and no error is raised.
C4_DegenerateIffAtrNotPositive ==
    /\ (error = "DegenerateVolatility") <=> (pc = "failed")
    /\ pc = "failed" => (ind.atr14 <= 0 /\ levels = {})
    /\ pc = "done" => (ind.atr14 > 0 /\ levels # {} /\ error = "none")
    /\ pc = "ready" => (levels = {} /\ error = "none")
    /\ ind.atr14 <= 0 => levels = {}
    /\ (ind.atr14 <= 0 /\ pc = "ready") => ENABLED FailDegenerateVolatility
    /\ (ind.atr14 > 0 /\ pc = "ready") =>
          (ENABLED GeneratePlan /\ ~ENABLED FailDegenerateVolatility)

\* the request with a zero ATR has failed
C4_Witness ==
    pc = "failed" /\ ind.atr14 = 0 /\ error = "DegenerateVolatility"

\* C5: in every emitted PriceLevelSet each stop level is strictly below
\* entry.moderate and each take-profit level strictly above it.
C5_StopsBelowTargetsAbove ==
    \A L \in levels :
        /\ \A s \in {L.stop.tight, L.stop.normal, L.stop.loose} :
              s < L.entry.moderate
        /\ \A t \in {L.tp.tp1, L.tp.tp2, L.tp.tp3} :
              t > L.entry.moderate

\* a plan has been emitted whose loose stop is negative (ATR above a
\* quarter of the price) and still below the moderate entry
C5_Witness ==
    /\ pc = "done"
    /\ \E L \in levels : L.stop.loose < 0 /\ L.tp.tp3 > L.entry.moderate

\* C6 as stated: the entries are ordered
\* conservative <= moderate <= aggressive in every emitted PriceLevelSet.
C6_Original ==
    \A L \in levels :
        /\ L.entry.conservative <= L.entry.moderate
        /\ L.entry.moderate <= L.entry.aggressive

\* C6 amended: entry.conservative <= entry.moderate in every emitted
\* PriceLevelSet; entry.aggressive is ma20 and is at or above entry.moderate
\* exactly when ma20 >= current_price x 0.98 (it is below it otherwise).
C6_EntriesOrderedUpToMa20 ==
    \A L \in levels :
        /\ L.entry.conservative <= L.entry.moderate
        /\ L.entry.aggressive = ind.ma20 * 100
        /\ (L.entry.moderate <= L.entry.aggressive)
              <=> (ind.ma20 * 100 >= current_price * 98)

\* a plan has been emitted whose aggressive entry is the lowest of the three
C6_Witness ==
    /\ pc = "done"
    /\ \E L \in levels : L.entry.aggressive < L.entry.conservative

\* C7 as stated: the stops are ordered tight < normal < loose.
C7_Original ==
    \A L \in levels :
        /\ L.stop.tight < L.stop.normal
        /\ L.stop.normal < L.stop.loose

\* C7 amended: in every emitted PriceLevelSet the stops are ordered
\* tight > normal > loose as prices; it is the distance below the moderate
\* entry that grows from tight to loose.
C7_StopsDescending ==
    \A L \in levels :
        LET dist(s) == L.entry.moderate - s IN
        /\ L.stop.tight > L.stop.normal
        /\ L.stop.normal > L.stop.loose
        /\ dist(L.stop.tight) < dist(L.stop.normal)
        /\ dist(L.stop.normal) < dist(L.stop.loose)

\* a plan has been emitted for the documented ATR of 4.5
C7_Witness ==
    /\ pc = "done"
    /\ ind.atr14 = ScenarioAtr
    /\ \E L \in levels : L.stop.tight - L.stop.loose = 2 * ScenarioAtr * 100

----------------------------------------------------------------------------
(* Properties of the recommendation, checked under SpecRec and SpecMono.   *)

Has(r, clause) == \E k \in 1..Len(r.rationale) : r.rationale[k] = clause

\* the dimension of the checklist a clause belongs to
Dimension(clause) ==
    CASE clause \in {"very strong momentum", "positive momentum",
                     "weak momentum"} -> 1
      [] clause \in {"low volatility / high quality", "high volatility"} -> 2
      [] clause \in {"strong trend", "weak trend"} -> 3
      [] clause \in {"overbought", "oversold"} -> 4
      [] clause = "momentum strengthening" -> 5
      [] OTHER -> 0

Rank(label) ==
    CASE label = "strong buy" -> 3
      [] label = "buy" -> 2
      [] label = "hold/watch" -> 1
      [] OTHER -> 0

\* C1: the label is picked by first match: "strong buy" (0.8) exactly when
\* momentum_60d > 10 and current_price > ma200; otherwise "buy" (0.6)
\* exactly when momentum_60d > 5 and current_price > ma50; otherwise
\* "hold/watch" (0.3); exactly one label, strict comparisons.
C1_FirstMatchLabel ==
    LET strong == ind.momentum_60d > 100 /\ current_price > ind.ma200
        buy == ind.momentum_60d > 50 /\ current_price > ind.ma50
    IN  /\ Cardinality(rec) <= 1
        /\ \A r \in rec :
              /\ r.label \in {"strong buy", "buy", "hold/watch"}
              /\ (r.label = "strong buy") <=> strong
              /\ (r.label = "buy") <=> (~strong /\ buy)
              /\ (r.label = "hold/watch") <=> (~strong /\ ~buy)
              /\ (r.label = "strong buy") <=> (r.score = 8)
              /\ (r.label = "buy") <=> (r.score = 6)
              /\ (r.label = "hold/watch") <=> (r.score = 3)
              /\ (ind.momentum_60d = 100 \/ current_price = ind.ma200)
                    => r.label # "strong buy"

\* a request exactly on the strong-buy momentum threshold, above both
\* averages, has been rated "buy"
C1_Witness ==
    /\ pc = "done"
    /\ ind.momentum_60d = StrongBuyMomentum
    /\ current_price > ind.ma200
    /\ \E r \in rec : r.label = "buy" /\ r.score = BuyScore

\* C8: when the label is "strong buy" the rationale has neither the "weak
\* momentum" nor the "weak trend" clause and has a momentum clause ("very
\* strong momentum" or "positive momentum") and the "strong trend" clause.
C8_StrongBuyRationaleConsistent ==
    \A r \in rec :
        r.label = "strong buy" =>
            /\ ~Has(r, "weak momentum")
            /\ ~Has(r, "weak trend")
            /\ Has(r, "very strong momentum") \/ Has(r, "positive momentum")
            /\ Has(r, "strong trend")

\* a strong buy between the rating threshold (10%) and the "very strong"
\* rationale threshold (15%) has been emitted
C8_Witness ==
    /\ pc = "done"
    /\ ind.momentum_60d > StrongBuyMomentum
    /\ ind.momentum_60d < VeryStrongMomentum
    /\ \E r \in rec : r.label = "strong buy" /\ Has(r, "positive momentum")

\* C9: of two requests that differ in momentum_60d only, the one with the
\* larger momentum_60d never gets the lower label or score.
C9_MonotonicInMomentum ==
    \A p \in prev, r \in rec :
        (/\ p.price = current_price
         /\ p.ind = [ind EXCEPT !.momentum_60d = p.ind.momentum_60d]) =>
            /\ ind.momentum_60d >= p.ind.momentum_60d =>
                  (Rank(r.label) >= Rank(p.label) /\ r.score >= p.score)
            /\ ind.momentum_60d <= p.ind.momentum_60d =>
                  (Rank(r.label) <= Rank(p.label) /\ r.score <= p.score)

\* a strong buy has been re-rated with a larger momentum_60d
C9_Witness ==
    /\ pc = "done"
    /\ \E p \in prev, r \in rec :
          /\ p.label = "strong buy"
          /\ ind.momentum_60d > p.ind.momentum_60d
          /\ r.label = "strong buy"

----------------------------------------------------------------------------
(* 3.3 On-the-fly calculation: the IndicatorEngine                         *)
(*                                                                         *)
(* A PriceSeries is a sequence of bars [close, high, low] in date order;   *)
(* the date of a bar is its position.  Additional number encoding:         *)
(*   daily returns          : 1/10 of a percent, rounded down              *)
(*   EMA, MACD              : 1/100 of a cent                              *)
(*   quotients              : rounded down (\div)                          *)
(***************************************************************************)

\* moving-average windows
ShortWindow == 20
MidWindow == 50
LongWindow == 200
\* momentum: the change over 60 days
MomentumLag == 60
\* 1000 tenths of a percent make the whole
PerMille == 1000
TenthsPerPercent == 10
VolWindow == 20
AtrWindow == 14
RsiWindow == 14
RsiMax == 100
MacdFast == 12
MacdSlow == 26
MacdSignal == 9
EmaScale == 100
BollingerWidth == 2
\* trading days per year, for the annualisation by sqrt(252)
TradingDays == 252
\* RSI of a window without any price change
RsiNeutral == 50

Abs(x) == IF x < 0 THEN -x ELSE x
Max(a, b) == IF a > b THEN a ELSE b
Min(a, b) == IF a < b THEN a ELSE b

\* the largest r in lo..hi with r * r <= n (lo * lo <= n is given)
RECURSIVE IsqrtBetween(_, _, _)
IsqrtBetween(n, lo, hi) ==
    IF lo >= hi THEN lo
    ELSE LET mid == (lo + hi + 1) \div 2 IN
         IF mid * mid <= n THEN IsqrtBetween(n, mid, hi)
         ELSE IsqrtBetween(n, lo, mid - 1)

\* square root, rounded down; defined for n >= 0 only
Isqrt(n) == IsqrtBetween(n, 0, Min(n, 46340))

\* f[lo] + ... + f[hi], summed by halves
RECURSIVE Sum(_, _, _)
Sum(f, lo, hi) ==
    IF lo > hi THEN 0
    ELSE IF lo = hi THEN f[lo]
    ELSE LET mid == (lo + hi) \div 2 IN Sum(f, lo, mid) + Sum(f, mid + 1, hi)

\* the bars the engine may use: those dated at or before the evaluation
\* date (variant: the whole series, whatever the evaluation date)
BarsAsOfLatest(series, date) == series
BarsAsOf(series, date) == SubSeq(series, 1, Min(date, Len(series)))

\* maN: simple mean of the close over the trailing N bars
MA(b, N) ==
    LET n == Len(b) IN
    Sum([i \in 1..n |-> b[i].close], n - N + 1, n) \div N

\* momentum: (Price / Price_60d - 1) * 100; no value below 61 bars
\* (variants: the bar 59 positions back; a series of 60 bars accepted)
\* what a division by zero leaves in a floating-point field: NaN or an
\* infinity, a value outside every range the indicators have
NotFinite == -(2 ^ 30)

Momentum60dOffByOne(b) ==
    LET n == Len(b) IN
    IF n < MomentumLag + 1 THEN {}
    ELSE {(b[n].close * PerMille) \div b[n - MomentumLag + 1].close
              - PerMille}
Momentum60d(b) ==
    LET n == Len(b) IN
    IF n < MomentumLag + 1 THEN {}
    ELSE IF b[n - MomentumLag].close = 0 THEN {NotFinite}
    ELSE {(b[n].close * PerMille) \div b[n - MomentumLag].close - PerMille}

\* true range of bar i (i > 1)
TrueRange(b, i) ==
    Max(b[i].high - b[i].low,
        Max(Abs(b[i].high - b[i - 1].close),
            Abs(b[i].low - b[i - 1].close)))

\* ATR: simple 14-day average of the true range
Atr14(b) ==
    LET n == Len(b) IN
    Sum([i \in 2..n |-> TrueRange(b, i)], n - AtrWindow + 1, n)
        \div AtrWindow

\* RSI over the last 14 price changes, simple averages:
\* 100 - 100 / (1 + average gain / average loss), with the zero averages
\* taken out first (variant: 100 * RS, the normalisation forgotten)
RsiOfUnnormalised(gain, loss) ==
    IF gain = 0 /\ loss = 0 THEN RsiNeutral
    ELSE IF loss = 0 THEN RsiMax
    ELSE (RsiMax * gain) \div loss
RsiOf(gain, loss) ==
    IF gain = 0 /\ loss = 0 THEN RsiNeutral
    ELSE IF loss = 0 THEN RsiMax
    ELSE RsiMax - (RsiMax * loss) \div (gain + loss)

Gains(b) ==
    LET n == Len(b) IN
    Sum([i \in 2..n |-> Max(b[i].close - b[i - 1].close, 0)],
        n - RsiWindow + 1, n)
Losses(b) ==
    LET n == Len(b) IN
    Sum([i \in 2..n |-> Max(b[i - 1].close - b[i].close, 0)],
        n - RsiWindow + 1, n)
Rsi14(b) == RsiOf(Gains(b), Losses(b))

\* sample variance of f[lo..hi], rounded down:
\* sum (N f[i] - sum f)^2 / (N^2 (N - 1))
VarianceOf(f, lo, hi) ==
    LET N == hi - lo + 1
        total == Sum(f, lo, hi)
        sq == [i \in lo..hi |-> (N * f[i] - total) * (N * f[i] - total)]
    IN  Sum(sq, lo, hi) \div (N * N * (N - 1))

\* daily simple return of bar i (i > 1), in tenths of a percent
Return(b, i) ==
    ((b[i].close - b[i - 1].close) * PerMille) \div b[i - 1].close

\* 20-day volatility: the standard deviation of the last 20 daily returns,
\* annualised by sqrt(252), in percent
Volatility(b) ==
    LET n == Len(b) IN
    IF \E i \in (n - VolWindow)..(n - 1) : b[i].close = 0 THEN NotFinite
    ELSE
    Isqrt(VarianceOf([i \in 2..n |-> Return(b, i)], n - VolWindow + 1, n)
              * TradingDays) \div TenthsPerPercent

\* 20-day standard deviation of the close
Stdev20(b) ==
    LET n == Len(b) IN
    Isqrt(VarianceOf([i \in 1..n |-> b[i].close], n - ShortWindow + 1, n))

\* Bollinger bands: the 20-day average +/- 2 standard deviations
BollingerUpper(b) == MA(b, ShortWindow) + BollingerWidth * Stdev20(b)
\* (variant: the lower band on the wrong side of the average)
BollingerLowerAbove(b) == MA(b, ShortWindow) + BollingerWidth * Stdev20(b)
BollingerLower(b) == MA(b, ShortWindow) - BollingerWidth * Stdev20(b)

\* one EMA step with smoothing 2 / (N + 1)
EmaStep(emaBefore, x, N) == (2 * x + (N - 1) * emaBefore) \div (N + 1)

\* MACD 12 / 26 / 9, one bar further: m carries the two EMAs, the signal
\* line and the last two histograms
MacdStep(m, close) ==
    LET x == close * EmaScale
        fast == EmaStep(m.fast, x, MacdFast)
        slow == EmaStep(m.slow, x, MacdSlow)
        signal == EmaStep(m.signal, fast - slow, MacdSignal)
    IN  [fast |-> fast, slow |-> slow, signal |-> signal,
         hist |-> (fast - slow) - signal, hist_prev |-> m.hist]

\* MacdStep over the bars lo..hi in date order, taken by halves
RECURSIVE MacdOver(_, _, _, _)
MacdOver(b, lo, hi, m) ==
    IF lo > hi THEN m
    ELSE IF lo = hi THEN MacdStep(m, b[lo].close)
    ELSE LET mid == (lo + hi) \div 2
             first == MacdOver(b, lo, mid, m)
         IN  \* the first half is computed before the second is entered
             IF first.hist = first.hist
             THEN MacdOver(b, mid + 1, hi, first)
             ELSE m

\* the EMAs start at the first close
Macd(b) ==
    MacdOver(b, 2, Len(b),
        [fast |-> b[1].close * EmaScale, slow |-> b[1].close * EmaScale,
         signal |-> 0, hist |-> 0, hist_prev |-> 0])

\* the histogram of the prior period, recomputed from the bars
\* (variant: the histogram an earlier invocation left behind is used)
PriorHistRetained(b) ==
    LET kept == {i.macd_hist : i \in UNION {work[q].ind : q \in DOMAIN work}}
    IN  IF kept = {} THEN Macd(b).hist_prev
        ELSE CHOOSE h \in kept : \A k \in kept : k <= h
PriorHist(b) == Macd(b).hist_prev

\* fewer bars than the longest window
\* (variant: a series of exactly 200 bars rejected as well)
InsufficientHistoryInclusive(b) == Len(b) <= LongWindow
InsufficientHistory(b) == Len(b) < LongWindow

\* a close the engine divides by is zero or negative: the close 60 bars
\* back (momentum) or a prior close of the last 20 returns (volatility)
\* (variant: only the denominator of the momentum is looked at)
ZeroDenominatorMomentumOnly(b) == b[Len(b) - MomentumLag].close <= 0
ZeroDenominator(b) ==
    \/ b[Len(b) - MomentumLag].close <= 0
    \/ \E i \in (Len(b) - VolWindow)..(Len(b) - 1) : b[i].close <= 0

\* the IndicatorSet of a series: nothing when the history is insufficient
\* or a denominator is not positive
IndicatorEngine(b) ==
    IF InsufficientHistory(b) THEN {}
    ELSE IF ZeroDenominator(b) THEN {}
    ELSE LET m == Macd(b) IN
         {[ma20 |-> MA(b, ShortWindow),
           ma50 |-> MA(b, MidWindow),
           ma200 |-> MA(b, LongWindow),
           momentum_60d |-> mom,
           volatility |-> Volatility(b),
           atr14 |-> Atr14(b),
           rsi14 |-> Rsi14(b),
           macd |-> m.fast - m.slow,
           macd_signal |-> m.signal,
           macd_hist |-> m.hist,
           macd_hist_prev |-> PriorHist(b),
           bollinger_upper |-> BollingerUpper(b),
           bollinger_lower |-> BollingerLower(b)] : mom \in Momentum60d(b)}

\* the current price: the close of the evaluation bar
CurrentPrice(b) == b[Len(b)].close

----------------------------------------------------------------------------
(* 4.2 RegimeEngine: one threshold policy over the benchmark's trend,      *)
(* momentum and volatility.                                                *)

\* the benchmark's volatility counts as elevated above this percentage
RegimeVolatility == 25
\* risk budget, in hundredths: the share each bullish signal contributes
TrendBudget == 25
MomentumBudget == 25
CalmBudget == 50
\* the regime follows the budget
RiskOnBudget == 75
RiskOffBudget == 25

RegimeSignals(bi, price) ==
    [above_ma200 |-> price > bi.ma200,
     momentum_positive |-> bi.momentum_60d > 0,
     volatility_elevated |-> bi.volatility > RegimeVolatility,
     momentum_60d |-> bi.momentum_60d,
     volatility |-> bi.volatility]

\* (variant: positive momentum lowers the budget)
RiskBudgetMomentumInverted(sig) ==
    (IF sig.above_ma200 THEN TrendBudget ELSE 0)
        + (IF sig.momentum_positive THEN 0 ELSE MomentumBudget)
        + (IF sig.volatility_elevated THEN 0 ELSE CalmBudget)
RiskBudget(sig) ==
    (IF sig.above_ma200 THEN TrendBudget ELSE 0)
        + (IF sig.momentum_positive THEN MomentumBudget ELSE 0)
        + (IF sig.volatility_elevated THEN 0 ELSE CalmBudget)

RegimeOf(budget) ==
    IF budget >= RiskOnBudget THEN "RISK_ON"
    ELSE IF budget <= RiskOffBudget THEN "RISK_OFF"
    ELSE "NEUTRAL"

\* the RegimeState of a date
RegimeEngine(bi, price, date) ==
    LET sig == RegimeSignals(bi, price) IN
    [date |-> date,
     regime |-> RegimeOf(RiskBudget(sig)),
     risk_budget |-> RiskBudget(sig),
     signals |-> sig]

----------------------------------------------------------------------------
(* The price histories explored.  A series is described by its length and  *)
(* its shape; BarsOf gives its bars.                                       *)

\* the last bars of a ramp rise or fall by `step` cents a day
RampLength == ShortWindow
\* a jump lifts the last 60 closes by `step` tenths of the base price
JumpDivisor == 10

CloseAt(d, i) ==
    CASE d.shape = "flat" -> d.base
      [] d.shape = "jump" ->
            IF i > d.n - MomentumLag
            THEN d.base + d.step * (d.base \div JumpDivisor)
            ELSE d.base
      [] d.shape = "up" -> d.base + d.step * Max(0, i - (d.n - RampLength))
      [] d.shape = "down" -> d.base - d.step * Max(0, i - (d.n - RampLength))
      [] d.shape = "zigzag" -> d.base + d.step * (i % 2)
      [] d.shape = "sawtooth" -> d.base + d.step * (i % 3)
      [] d.shape = "hole" -> IF i = d.n - d.step THEN 0 ELSE d.base

BarsOf(d) ==
    [i \in 1..d.n |->
        [close |-> CloseAt(d, i),
         high |-> CloseAt(d, i) + d.spread,
         low |-> CloseAt(d, i) - d.spread]]

Series(n, shape, step, spread) ==
    [n |-> n, shape |-> shape, base |-> BasePrice, step |-> step,
     spread |-> spread]

----------------------------------------------------------------------------
(* The request pipeline: analyze and marketStatus.                         *)

\* the market benchmark
Benchmark == "SPY"

\* the series the acquisition has for a symbol (0 or 1)
SeriesOf(symbol) ==
    IF symbol \in DOMAIN history THEN history[symbol] ELSE {}

NoWork == [ind |-> {}, price |-> {}, regime |-> {}, rec |-> {}, levels |-> {}]

\* every request computes in a workspace of its own
\* (variant: one workspace, a module-level global, for all requests)
SlotShared(r) == 1
Slot(r) == r

\* a failed request hands back the error and nothing else
\* (variant: whatever had been computed before the failure is sent along)
FailureOutcomePartial(q, w, e) ==
    [op |-> q.op, symbol |-> q.symbol, date |-> q.date, error |-> e,
     current_price |-> w.price, market_regime |-> {}, technicals |-> w.ind,
     recommendation |-> w.rec, levels |-> w.levels, regime_state |-> {}]
FailureOutcome(q, w, e) ==
    [op |-> q.op, symbol |-> q.symbol, date |-> q.date, error |-> e,
     current_price |-> {}, market_regime |-> {}, technicals |-> {},
     recommendation |-> {}, levels |-> {}, regime_state |-> {}]

\* the AnalysisResult: the regime is copied in, not the whole RegimeState
AnalysisResult(q, w) ==
    [op |-> q.op, symbol |-> q.symbol, date |-> q.date, error |-> "none",
     current_price |-> w.price,
     market_regime |-> {g.regime : g \in w.regime},
     technicals |-> w.ind, recommendation |-> w.rec, levels |-> w.levels,
     regime_state |-> {}]

\* the answer of marketStatus: the RegimeState
MarketStatus(q, w) ==
    [op |-> q.op, symbol |-> q.symbol, date |-> q.date, error |-> "none",
     current_price |-> {}, market_regime |-> {}, technicals |-> {},
     recommendation |-> {}, levels |-> {}, regime_state |-> w.regime]

FailWith(r, e) ==
    /\ outcome' = [outcome EXCEPT
                      ![r] = {FailureOutcome(reqs[r], work[Slot(r)], e)}]
    /\ rpc' = [rpc EXCEPT ![r] = "failed"]
    /\ UNCHANGED <<history, reqs, work, page>>

\* the bars of a symbol the request may look at
BarsFor(symbol, date) == {BarsAsOf(BarsOf(d), date) : d \in SeriesOf(symbol)}

\* 3.1: the price data of the symbol is loaded
AcquireSymbol(r) ==
    /\ rpc[r] = "start"
    /\ reqs[r].op \in {"analyze", "indicators"}
    /\ IF SeriesOf(reqs[r].symbol) = {}
       THEN FailWith(r, "UnknownSymbol")
       ELSE /\ rpc' = [rpc EXCEPT ![r] = "acquired"]
            /\ UNCHANGED <<history, reqs, work, outcome, page>>
    /\ UNCHANGED componentVars

\* the regime the engine assumes when it has no benchmark data: none, the
\* request fails
\* (variant: NEUTRAL is assumed and nothing in the signals tells)
RegimeWithoutBenchmarkNeutral(date) ==
    {[date |-> date, regime |-> "NEUTRAL",
      risk_budget |-> RiskBudget([above_ma200 |-> FALSE,
                                  momentum_positive |-> FALSE,
                                  volatility_elevated |-> FALSE]),
      signals |-> [above_ma200 |-> FALSE, momentum_positive |-> FALSE,
                   volatility_elevated |-> FALSE, momentum_60d |-> 0,
                   volatility |-> 0]]}
RegimeWithoutBenchmark(date) == {}

\* 3.2: the regime is computed from the benchmark's indicators
ComputeRegime(r) ==
    /\ \/ rpc[r] = "acquired" /\ reqs[r].op = "analyze"
       \/ rpc[r] = "start" /\ reqs[r].op = "marketStatus"
    /\ IF SeriesOf(Benchmark) = {}
       THEN IF RegimeWithoutBenchmark(reqs[r].date) = {}
            THEN FailWith(r, "BenchmarkUnavailable")
            ELSE /\ work' = [work EXCEPT ![Slot(r)].regime =
                                RegimeWithoutBenchmark(reqs[r].date)]
                 /\ rpc' = [rpc EXCEPT ![r] = "regime"]
                 /\ UNCHANGED <<history, reqs, outcome, page>>
       ELSE \E b \in BarsFor(Benchmark, reqs[r].date) :
               IF InsufficientHistory(b)
               THEN FailWith(r, "InsufficientHistory")
               ELSE IF ZeroDenominator(b)
               THEN FailWith(r, "DegenerateVolatility")
               ELSE /\ work' = [work EXCEPT ![Slot(r)].regime =
                                   {RegimeEngine(bi, CurrentPrice(b),
                                                 reqs[r].date) :
                                       bi \in IndicatorEngine(b)}]
                    /\ rpc' = [rpc EXCEPT ![r] = "regime"]
                    /\ UNCHANGED <<history, reqs, outcome, page>>
    /\ UNCHANGED componentVars

\* 3.3: the indicators of the symbol are computed from its history
ComputeIndicators(r) ==
    /\ \/ rpc[r] = "regime" /\ reqs[r].op = "analyze"
       \/ rpc[r] = "acquired" /\ reqs[r].op = "indicators"
    /\ \E b \in BarsFor(reqs[r].symbol, reqs[r].date) :
          IF InsufficientHistory(b)
          THEN FailWith(r, "InsufficientHistory")
          ELSE IF ZeroDenominator(b)
          THEN FailWith(r, "DegenerateVolatility")
          ELSE /\ work' = [work EXCEPT
                              ![Slot(r)].ind = IndicatorEngine(b),
                              ![Slot(r)].price = {CurrentPrice(b)}]
               /\ rpc' = [rpc EXCEPT ![r] = "indicators"]
               /\ UNCHANGED <<history, reqs, outcome, page>>
    /\ UNCHANGED componentVars

\* 3.4: label, score and rationale
AnalyzeRecommend(r) ==
    /\ rpc[r] = "indicators"
    /\ reqs[r].op = "analyze"
    /\ work' = [work EXCEPT ![Slot(r)].rec =
                   {RecommendationEngine(i, p) :
                       i \in work[Slot(r)].ind, p \in work[Slot(r)].price}]
    /\ rpc' = [rpc EXCEPT ![r] = "recommended"]
    /\ UNCHANGED <<history, reqs, outcome, page>>
    /\ UNCHANGED componentVars

\* 3.5: the trade plan
AnalyzePlan(r) ==
    /\ rpc[r] = "recommended"
    /\ IF \E i \in work[Slot(r)].ind : DegenerateVolatility(i.atr14)
       THEN FailWith(r, "DegenerateVolatility")
       ELSE /\ work' = [work EXCEPT ![Slot(r)].levels =
                           {TradePlanGenerator(p, i.ma20, i.atr14) :
                               i \in work[Slot(r)].ind,
                               p \in work[Slot(r)].price}]
            /\ rpc' = [rpc EXCEPT ![r] = "planned"]
            /\ UNCHANGED <<history, reqs, outcome, page>>
    /\ UNCHANGED componentVars

\* 4: the response is merged and handed back
Respond(r) ==
    /\ \/ rpc[r] = "planned" /\ reqs[r].op = "analyze"
       \/ rpc[r] = "regime" /\ reqs[r].op = "marketStatus"
    /\ outcome' = [outcome EXCEPT ![r] =
                      IF reqs[r].op = "analyze"
                      THEN {AnalysisResult(reqs[r], work[Slot(r)])}
                      ELSE {MarketStatus(reqs[r], work[Slot(r)])}]
    /\ rpc' = [rpc EXCEPT ![r] = "done"]
    /\ UNCHANGED <<history, reqs, work, page>>
    /\ UNCHANGED componentVars

\* no single-component run is in progress
NoComponent ==
    /\ pc = "idle"
    /\ current_price = 0
    /\ ind = NoIndicators
    /\ rec = {}
    /\ levels = {}
    /\ error = "none"
    /\ prev = {}

Finished(r) == rpc[r] \in {"done", "failed"}

----------------------------------------------------------------------------
(* The IndicatorEngine on its own: one request, stopped after 3.3.         *)

Shapes == {"flat", "jump", "up", "down", "zigzag", "sawtooth"}
SeriesLengths ==
    Around(LongWindow) \cup Around(MomentumLag + 1)
        \cup {LongWindow + MomentumLag + 1}
IndSeries ==
    {Series(n, shape, step, spread) :
        n \in SeriesLengths, shape \in Shapes, step \in 1..2,
        spread \in 0..1}

InitInd ==
    /\ NoComponent
    /\ \E d \in IndSeries, known \in BOOLEAN :
          /\ history = [s \in {"AAPL"} |-> IF known THEN {d} ELSE {}]
          /\ reqs = [r \in {1} |->
                        [op |-> "indicators", symbol |-> "AAPL",
                         date |-> d.n]]
    /\ rpc = [r \in {1} |-> "start"]
    /\ work = [r \in {1} |-> NoWork]
    /\ outcome = [r \in {1} |-> {}]
    /\ page = <<>>

NextInd ==
    \E r \in DOMAIN reqs : AcquireSymbol(r) \/ ComputeIndicators(r)

SpecInd == InitInd /\ [][NextInd]_vars

----------------------------------------------------------------------------
(* Two requests at a time over one shared price history.                   *)

Requests == {1, 2}
\* evaluation dates: one bar short of the longest window, exactly enough,
\* and the last bar of the long series
Dates == {LongWindow - 1, LongWindow, LongWindow + MomentumLag + 1}

\* AAPL: a 20% jump over the last 60 bars, or a flat series without range;
\* NVDA: equal to AAPL's jump series up to bar 200 and rising later, or a
\* series of 199 bars; SPY: missing, a zigzag, or exactly 200 flat bars
Markets ==
    {[s \in {"AAPL", "NVDA", Benchmark} |->
         CASE s = "AAPL" -> a [] s = "NVDA" -> v [] OTHER -> m] :
        a \in {{Series(LongWindow + MomentumLag + 1, "jump", 2, 1)},
               {Series(LongWindow + MomentumLag + 1, "flat", 1, 0)}},
        v \in {{Series(LongWindow + MomentumLag + 1, "up", 1, 1)},
               {Series(LongWindow - 1, "flat", 1, 1)}},
        m \in {{}, {Series(LongWindow + MomentumLag + 1, "zigzag", 1, 1)},
               {Series(LongWindow, "flat", 1, 1)}}}

RequestChoices ==
    {[op |-> "analyze", symbol |-> s, date |-> e] :
        s \in {"AAPL", "NVDA", "ZZZZ"}, e \in Dates}
    \cup {[op |-> "marketStatus", symbol |-> Benchmark, date |-> e] :
             e \in Dates}

InitAnalyze ==
    /\ NoComponent
    /\ history \in Markets
    /\ reqs \in [Requests -> RequestChoices]
    /\ rpc = [r \in Requests |-> "start"]
    /\ work = [r \in Requests |-> NoWork]
    /\ outcome = [r \in Requests |-> {}]
    /\ page = <<>>

NextAnalyze ==
    \E r \in DOMAIN reqs :
        \/ AcquireSymbol(r)
        \/ ComputeIndicators(r)
        \/ ComputeRegime(r)
        \/ AnalyzeRecommend(r)
        \/ AnalyzePlan(r)
        \/ Respond(r)

SpecAnalyze == InitAnalyze /\ [][NextAnalyze]_vars

\* Three requests: the first two are the same request, the third is
\* another one that may run before, between or after them.
DetMarket ==
    [s \in {"AAPL", "NVDA", Benchmark} |->
        CASE s = "AAPL" ->
                {Series(LongWindow + MomentumLag + 1, "jump", 2, 1)}
          [] s = "NVDA" -> {Series(LongWindow + MomentumLag + 1, "up", 1, 1)}
          [] OTHER -> {Series(LongWindow + MomentumLag + 1, "zigzag", 1, 1)}]

DetChoices ==
    {[op |-> "analyze", symbol |-> s, date |-> e] :
        s \in {"AAPL", "NVDA"},
        e \in {LongWindow - 1, LongWindow + MomentumLag + 1}}
    \cup {[op |-> "marketStatus", symbol |-> Benchmark,
           date |-> LongWindow + MomentumLag + 1]}

InitDet ==
    /\ NoComponent
    /\ history = DetMarket
    /\ \E q \in DetChoices : \E other \in DetChoices \ {q} :
          reqs = [r \in 1..3 |-> IF r = 3 THEN other ELSE q]
    /\ rpc = [r \in 1..3 |-> "start"]
    /\ work = [r \in 1..3 |-> NoWork]
    /\ outcome = [r \in 1..3 |-> {}]
    /\ page = <<>>

SpecDet == InitDet /\ [][NextAnalyze]_vars

----------------------------------------------------------------------------
(* Properties of the IndicatorEngine and of the request pipeline.          *)

ErrorKinds ==
    {"InsufficientHistory", "UnknownSymbol", "DegenerateVolatility",
     "BenchmarkUnavailable"}

\* the number of bars of a symbol dated at or before a date (-1: no series)
BarsAtOrBefore(symbol, date) ==
    IF SeriesOf(symbol) = {} THEN -1
    ELSE LET d == CHOOSE x \in SeriesOf(symbol) : TRUE IN Min(d.n, date)

\* the request has got past the IndicatorEngine
PastIndicators(r) ==
    rpc[r] \in {"indicators", "recommended", "planned", "done"}

Complete(o) ==
    /\ o.error = "none"
    /\ Cardinality(o.current_price) = 1
    /\ Cardinality(o.market_regime) = 1
    /\ Cardinality(o.technicals) = 1
    /\ Cardinality(o.recommendation) = 1
    /\ Cardinality(o.levels) = 1

ErrorOnly(o) ==
    /\ o.error \in ErrorKinds
    /\ o.current_price = {}
    /\ o.market_regime = {}
    /\ o.technicals = {}
    /\ o.recommendation = {}
    /\ o.levels = {}

\* C12: every analyze request ends in exactly one outcome, which is either
\* a complete AnalysisResult or one of the four errors with no component;
\* a symbol with 200+ bars and atr14 <= 0 yields DegenerateVolatility and
\* neither indicators nor a recommendation.
C12_CompleteResultOrError ==
    \A r \in DOMAIN reqs :
        reqs[r].op = "analyze" =>
            /\ Cardinality(outcome[r]) = (IF Finished(r) THEN 1 ELSE 0)
            /\ \A o \in outcome[r] :
                  /\ Complete(o) \/ ErrorOnly(o)
                  /\ ~(Complete(o) /\ ErrorOnly(o))
                  /\ (rpc[r] = "done") <=> Complete(o)
                  /\ (\E i \in work[r].ind : i.atr14 <= 0) =>
                        /\ o.error \in ErrorKinds
                        /\ rpc[r] = "failed" /\ work[r].regime # {}
                              => o.error = "DegenerateVolatility"
                        /\ o.technicals = {}
                        /\ o.recommendation = {}

\* a request whose indicators and recommendation had been computed has
\* failed with DegenerateVolatility
C12_Witness ==
    \E r \in DOMAIN reqs :
        /\ rpc[r] = "failed"
        /\ work[r].ind # {}
        /\ work[r].rec # {}
        /\ \E o \in outcome[r] : o.error = "DegenerateVolatility"

AgreeUpTo(d1, d2, date) ==
    /\ Min(d1.n, date) = Min(d2.n, date)
    /\ \A i \in 1..Min(d1.n, date) : BarsOf(d1)[i] = BarsOf(d2)[i]

\* the two series differ in a bar after the date
DifferAfter(d1, d2, date) ==
    \/ Max(d1.n, date) # Max(d2.n, date)
    \/ \E i \in (date + 1)..d1.n : BarsOf(d1)[i] # BarsOf(d2)[i]

\* C14: two series that agree on every bar at or before the evaluation
\* date get the same result for that date, whatever their later bars are.
C14_NoLookahead ==
    \A r1, r2 \in DOMAIN reqs :
        \A d1 \in SeriesOf(reqs[r1].symbol), d2 \in SeriesOf(reqs[r2].symbol) :
            (/\ reqs[r1].op = "analyze" /\ reqs[r2].op = "analyze"
             /\ reqs[r1].date = reqs[r2].date
             /\ Finished(r1) /\ Finished(r2)
             /\ AgreeUpTo(d1, d2, reqs[r1].date)) =>
                {[o EXCEPT !.symbol = "any"] : o \in outcome[r1]}
                    = {[o EXCEPT !.symbol = "any"] : o \in outcome[r2]}

\* two symbols whose series part after bar 200 have both been analysed
\* as of bar 200, with complete results
C14_Witness ==
    \E r1, r2 \in DOMAIN reqs :
        \E d1 \in SeriesOf(reqs[r1].symbol), d2 \in SeriesOf(reqs[r2].symbol) :
            /\ reqs[r1].symbol # reqs[r2].symbol
            /\ reqs[r1].date = LongWindow /\ reqs[r2].date = LongWindow
            /\ rpc[r1] = "done" /\ rpc[r2] = "done"
            /\ AgreeUpTo(d1, d2, LongWindow)
            /\ DifferAfter(d1, d2, LongWindow)

\* the outcome of a request run on its own: analyze resp. marketStatus as
\* one function of the price data
RunAlone(q) ==
    LET none == NoWork
        mine == BarsFor(q.symbol, q.date)
        bench == BarsFor(Benchmark, q.date)
        regimes == UNION {{RegimeEngine(bi, CurrentPrice(b), q.date) :
                              bi \in IndicatorEngine(b)} : b \in bench}
        fail(e) == [op |-> q.op, symbol |-> q.symbol, date |-> q.date,
                    error |-> e, current_price |-> {}, market_regime |-> {},
                    technicals |-> {}, recommendation |-> {}, levels |-> {},
                    regime_state |-> {}]
    IN  IF q.op = "analyze" /\ mine = {} THEN fail("UnknownSymbol")
        ELSE IF bench = {} THEN fail("BenchmarkUnavailable")
        ELSE IF \E b \in bench : Len(b) < 200
        THEN fail("InsufficientHistory")
        ELSE IF q.op = "analyze" /\ \E b \in mine : Len(b) < 200
        THEN fail("InsufficientHistory")
        ELSE IF q.op = "marketStatus"
        THEN [fail("none") EXCEPT !.regime_state = regimes]
        ELSE LET b == CHOOSE x \in mine : TRUE
                 i == CHOOSE x \in IndicatorEngine(b) : TRUE
                 p == CurrentPrice(b)
             IN  IF i.atr14 <= 0 THEN fail("DegenerateVolatility")
                 ELSE [fail("none") EXCEPT
                          !.current_price = {p},
                          !.market_regime = {g.regime : g \in regimes},
                          !.technicals = {i},
                          !.recommendation = {RecommendationEngine(i, p)},
                          !.levels = {TradePlanGenerator(p, i.ma20, i.atr14)}]

\* the outcome of every finished request is the one it has on its own
AloneOutcome ==
    \A r \in DOMAIN reqs : Finished(r) => outcome[r] = {RunAlone(reqs[r])}

\* C15: in every interleaving of the steps of concurrent requests each
\* request's outcome is the one it has when run alone, and no step changes
\* the shared price history.
C15_NoInterference == []AloneOutcome /\ [][history' = history]_vars

\* both requests are done, for different symbols, and each was in the
\* middle of its pipeline while the other took a step
C15_Witness ==
    /\ DOMAIN reqs = Requests
    /\ rpc[1] = "done" /\ rpc[2] = "planned"
    /\ reqs[1].symbol # reqs[2].symbol
    /\ reqs[1].date # reqs[2].date
    /\ work[1].ind # work[2].ind

----------------------------------------------------------------------------
(* dailyPicks and the picks page.  The page fetches /api/picks once, on    *)
(* mount, and draws one card per pick it received.                         *)

PickSymbols == <<"AAPL", "MSFT", "NVDA", "TSLA">>
\* candidate momenta: not rated buy, rated buy, rated strong buy
PickMomenta == {BuyMomentum, BuyMomentum + 1, StrongBuyMomentum + 1}

\* the analysis of a candidate, as far as dailyPicks looks at it
Candidate(symbol, momentum_60d) ==
    [symbol |-> symbol,
     current_price |-> ScenarioPrice,
     recommendation |->
         Rating(momentum_60d, ScenarioPrice, ScenarioMa20, ScenarioMa200)]

Buyable(c) == c.recommendation.label \in {"buy", "strong buy"}

\* c put behind every pick whose score is at least its own
RECURSIVE InsertByScore(_, _)
InsertByScore(c, sorted) ==
    IF sorted = <<>> THEN <<c>>
    ELSE IF Head(sorted).recommendation.score >= c.recommendation.score
    THEN <<Head(sorted)>> \o InsertByScore(c, Tail(sorted))
    ELSE <<c>> \o sorted

RECURSIVE SortByScore(_)
SortByScore(cs) ==
    IF cs = <<>> THEN <<>>
    ELSE InsertByScore(cs[Len(cs)], SortByScore(SubSeq(cs, 1, Len(cs) - 1)))

\* the candidates rated buy or strong buy, best score first
DailyPicks(candidates) == SortByScore(SelectSeq(candidates, Buyable))

\* the cards of the page: one per pick, in the order of the array, the
\* badge showing idx + 1 for the zero-based idx of Array.map
\* (variant: the badge shows idx)
PickCardsZeroBased(picks) ==
    [k \in 1..Len(picks) |->
        LET idx == k - 1 IN
        [badge |-> idx, symbol |-> picks[idx + 1].symbol]]
PickCards(picks) ==
    [k \in 1..Len(picks) |->
        LET idx == k - 1 IN
        [badge |-> idx + 1, symbol |-> picks[idx + 1].symbol]]

\* useState(null), useState(true), useState(null); the effect of these
\* pages has no dependencies and fetches once, on mount
PageMounted ==
    [kind |-> "fetch once", loading |-> TRUE, error |-> {}, data |-> {},
     view |-> {}]

\* the backend answers /api/picks: the picks of the day, or a status that
\* is not OK with a body that has no picks
ServePicks(r) ==
    /\ reqs[r].op = "dailyPicks"
    /\ rpc[r] = "start"
    /\ IF reqs[r].available
       THEN /\ outcome' = [outcome EXCEPT
                   ![r] = {[picks |-> DailyPicks(reqs[r].candidates)]}]
            /\ rpc' = [rpc EXCEPT ![r] = "done"]
       ELSE /\ outcome' = [outcome EXCEPT
                   ![r] = {[detail |-> "Internal Server Error"]}]
            /\ rpc' = [rpc EXCEPT ![r] = "failed"]
    /\ UNCHANGED <<history, reqs, work, page>>
    /\ UNCHANGED componentVars

\* .then(res => res.json()).then(setData).finally(() => setLoading(false))
\* and the render that follows: the status of the response is not looked
\* at, and data?.picks && ... draws no card for a body without picks
PicksLoaded(r) ==
    /\ page.kind = "fetch once"
    /\ page.loading
    /\ reqs[r].op = "dailyPicks"
    /\ Finished(r)
    /\ \E body \in outcome[r] :
          page' = [page EXCEPT
                      !.loading = FALSE,
                      !.data = {body},
                      !.view = {IF "picks" \in DOMAIN body
                                THEN PickCards(body.picks)
                                ELSE <<>>}]
    /\ UNCHANGED <<history, reqs, rpc, work, outcome>>
    /\ UNCHANGED componentVars

\* .catch(e => setError(e.message)).finally(() => setLoading(false)):
\* the error box is drawn instead of the cards
FetchFailed ==
    /\ page.kind = "fetch once"
    /\ page.loading
    /\ page' = [page EXCEPT !.loading = FALSE, !.error = {"Failed to fetch"}]
    /\ UNCHANGED <<history, reqs, rpc, work, outcome>>
    /\ UNCHANGED componentVars

InitPicks ==
    /\ NoComponent
    /\ history = <<>>
    /\ \E ms \in [1..Len(PickSymbols) -> PickMomenta], available \in BOOLEAN :
          reqs = <<[op |-> "dailyPicks",
                    available |-> available,
                    candidates |->
                        [k \in 1..Len(PickSymbols) |->
                            Candidate(PickSymbols[k], ms[k])]]>>
    /\ rpc = <<"start">>
    /\ work = <<NoWork>>
    /\ outcome = <<{}>>
    /\ page = PageMounted

NextPicks ==
    \/ \E r \in DOMAIN reqs : ServePicks(r)
    \/ \E r \in DOMAIN reqs : PicksLoaded(r)
    \/ FetchFailed

SpecPicks == InitPicks /\ [][NextPicks]_vars

\* C16: dailyPicks returns exactly the candidates rated buy or strong buy,
\* in order of non-increasing score; the picks page shows them in the
\* order received, numbered 1..n.
C16_PicksFilteredRankedNumbered ==
    \A r \in DOMAIN reqs : \A body \in outcome[r] :
        rpc[r] = "done" =>
        LET cs == reqs[r].candidates
            picks == body.picks
        IN  /\ {picks[k] : k \in DOMAIN picks}
                  = {cs[k] : k \in {j \in DOMAIN cs :
                        cs[j].recommendation.label \in {"buy", "strong buy"}}}
            /\ \A j, k \in DOMAIN picks :
                  /\ j < k => picks[j].recommendation.score
                                  >= picks[k].recommendation.score
                  /\ j # k => picks[j].symbol # picks[k].symbol
            /\ \A cards \in page.view :
                  /\ DOMAIN cards = 1..Len(picks)
                  /\ \A k \in DOMAIN cards :
                        /\ cards[k].badge = k
                        /\ cards[k].symbol = picks[k].symbol

\* the page shows three cards or more, a strong buy ahead of a buy that
\* came earlier among the candidates, and a candidate has been left out
C16_Witness ==
    \E r \in DOMAIN reqs : \E body \in outcome[r], cards \in page.view :
        /\ Len(cards) >= 3
        /\ Len(cards) < Len(reqs[r].candidates)
        /\ cards[Len(cards)].badge = Len(cards)
        /\ body.picks[1].recommendation.label = "strong buy"
        /\ body.picks[Len(cards)].recommendation.label = "buy"
        /\ reqs[r].candidates[1].recommendation.label = "buy"

\* the bars the engine has looked at, for the IndicatorEngine on its own
BarsSeen(r) == BarsFor(reqs[r].symbol, reqs[r].date)

C18_RsiBounded ==
    \A r \in DOMAIN reqs : \A b \in BarsSeen(r) :
        /\ Len(b) > RsiWindow => (Rsi14(b) >= 0 /\ Rsi14(b) <= 100)
        /\ \A i \in work[r].ind :
              /\ i.rsi14 >= 0 /\ i.rsi14 <= 100
              /\ (Losses(b) = 0 /\ Gains(b) > 0) => i.rsi14 = 100
              /\ (Gains(b) = 0 /\ Losses(b) > 0) => i.rsi14 = 0
              /\ (Gains(b) > Losses(b)) => i.rsi14 >= 50

\* the engine has returned an RSI for a window with more gains than losses
C18_Witness ==
    \E r \in DOMAIN reqs : \E b \in BarsSeen(r), i \in work[r].ind :
        /\ Gains(b) > Losses(b)
        /\ Losses(b) > 0
        /\ i.rsi14 > 50 /\ i.rsi14 < 100

\* the last 20 closes are all equal
FlatTail(b) ==
    \A i \in (Len(b) - ShortWindow + 1)..Len(b) : b[i].close = b[Len(b)].close

\* C19: for a flat series (equal closes over the trailing 20 bars) the
\* volatility is 0 and both Bollinger bands equal ma20; in general
\* bollinger_lower <= ma20 <= bollinger_upper.
C19_FlatSeriesZeroWidth ==
    \A r \in DOMAIN reqs : \A b \in BarsSeen(r), i \in work[r].ind :
        /\ i.bollinger_lower <= i.ma20
        /\ i.ma20 <= i.bollinger_upper
        /\ i.volatility >= 0
        /\ FlatTail(b) =>
              /\ i.bollinger_upper = i.ma20
              /\ i.bollinger_lower = i.ma20
              /\ i.ma20 = b[Len(b)].close
        /\ (\A k \in (Len(b) - VolWindow)..Len(b) :
                b[k].close = b[Len(b)].close) => i.volatility = 0

\* the engine has returned indicators for a flat series
C19_Witness ==
    \E r \in DOMAIN reqs : \E b \in BarsSeen(r), i \in work[r].ind :
        /\ FlatTail(b)
        /\ i.volatility = 0
        /\ i.bollinger_upper = i.bollinger_lower

----------------------------------------------------------------------------
(* marketStatus and the market page.  The page fetches /api/market once,   *)
(* on mount, looks the regime up in its display table and draws the risk   *)
(* budget as a bar.                                                        *)

\* the three entries of regimeConfig
regimeConfig ==
    [k \in {"RISK_ON", "NEUTRAL", "RISK_OFF"} |->
        CASE k = "RISK_ON" -> [color |-> "text-emerald-400", icon |-> "green"]
          [] k = "NEUTRAL" -> [color |-> "text-yellow-400", icon |-> "yellow"]
          [] OTHER -> [color |-> "text-red-400", icon |-> "red"]]

\* data?.regime || "NEUTRAL", data?.risk_budget || 0
RegimeKey(data) ==
    IF \E d \in data : d.regime # {}
    THEN CHOOSE k \in UNION {d.regime : d \in data} : TRUE
    ELSE "NEUTRAL"
BudgetOf(data) ==
    IF \E d \in data : d.risk_budget # {}
    THEN CHOOSE b \in UNION {d.risk_budget : d \in data} : TRUE
    ELSE 0

\* regimeConfig[key]: undefined for a key the table does not have
RegimeDisplay(data) ==
    IF RegimeKey(data) \in DOMAIN regimeConfig
    THEN {regimeConfig[RegimeKey(data)]}
    ELSE {}

\* risk_budget * 100, the width of the bar in percent; the budget being in
\* hundredths here, so is the width (variant: the budget is not scaled)
PercentScale == 100
BarWidthUnscaled(data) == BudgetOf(data)
BarWidth(data) == BudgetOf(data) * PercentScale

\* the backend answers /api/market: the RegimeState of the benchmark, or a
\* body without one when the benchmark cannot be loaded
ServeMarket(r) ==
    /\ reqs[r].op = "marketStatus"
    /\ rpc[r] = "start"
    /\ IF reqs[r].available
       THEN LET g == RegimeEngine(reqs[r].benchmark, reqs[r].price,
                                  reqs[r].date)
            IN  /\ outcome' = [outcome EXCEPT
                       ![r] = {[date |-> {g.date}, regime |-> {g.regime},
                                risk_budget |-> {g.risk_budget},
                                signals |-> {g.signals}]}]
                /\ rpc' = [rpc EXCEPT ![r] = "done"]
       ELSE /\ outcome' = [outcome EXCEPT
                   ![r] = {[date |-> {}, regime |-> {}, risk_budget |-> {},
                            signals |-> {}]}]
            /\ rpc' = [rpc EXCEPT ![r] = "failed"]
    /\ UNCHANGED <<history, reqs, work, page>>
    /\ UNCHANGED componentVars

\* .then(res => res.json()).then(setData).finally(() => setLoading(false))
\* and the render that follows; the status of the response is not looked at
MarketLoaded(r) ==
    /\ page.kind = "fetch once"
    /\ page.loading
    /\ reqs[r].op = "marketStatus"
    /\ Finished(r)
    /\ page' = [page EXCEPT
                    !.loading = FALSE,
                    !.data = outcome[r],
                    !.view = {[regime |-> RegimeDisplay(outcome[r]),
                               bar |-> BarWidth(outcome[r])]}]
    /\ UNCHANGED <<history, reqs, rpc, work, outcome>>
    /\ UNCHANGED componentVars

\* the benchmark on the evaluation date, by its indicators
MarketInputs ==
    [benchmark : [ma200 : {ScenarioMa200},
                  momentum_60d : Around(0),
                  volatility : Around(RegimeVolatility)],
     price : Around(ScenarioMa200),
     date : {LongWindow},
     available : BOOLEAN,
     op : {"marketStatus"}]

InitMarket ==
    /\ NoComponent
    /\ history = <<>>
    /\ \E q \in MarketInputs : reqs = <<q>>
    /\ rpc = <<"start">>
    /\ work = <<NoWork>>
    /\ outcome = <<{}>>
    /\ page = PageMounted

NextMarket ==
    \/ \E r \in DOMAIN reqs : ServeMarket(r)
    \/ \E r \in DOMAIN reqs : MarketLoaded(r)
    \/ FetchFailed

SpecMarket == InitMarket /\ [][NextMarket]_vars

\* C20: the RegimeEngine returns exactly one regime out of RISK_ON,
\* NEUTRAL and RISK_OFF, and a risk budget within [0, 1]; the market page
\* has a display entry for exactly these three and draws the budget bar
\* at risk_budget x 100 percent.
C20_RegimeAndBudgetBar ==
    /\ DOMAIN regimeConfig = {"RISK_ON", "NEUTRAL", "RISK_OFF"}
    /\ \A r \in DOMAIN reqs :
          rpc[r] = "done" =>
              \A body \in outcome[r] :
                  /\ Cardinality(body.regime) = 1
                  /\ body.regime \subseteq {"RISK_ON", "NEUTRAL", "RISK_OFF"}
                  /\ \A b \in body.risk_budget : b >= 0 /\ b <= 100
                  /\ Cardinality(body.risk_budget) = 1
                  /\ \A v \in page.view :
                        /\ v.regime = {regimeConfig[k] : k \in body.regime}
                        /\ \A b \in body.risk_budget : v.bar = b * 100
                        /\ v.bar >= 0 /\ v.bar <= 100 * 100

\* the page shows a RISK_OFF state with a bar of 25 percent
C20_Witness ==
    \E r \in DOMAIN reqs : \E body \in outcome[r], v \in page.view :
        /\ rpc[r] = "done"
        /\ body.regime = {"RISK_OFF"}
        /\ v.regime = {regimeConfig["RISK_OFF"]}
        /\ v.bar = 25 * 100

----------------------------------------------------------------------------
(* Two benchmark inputs side by side: how the risk budget moves with the   *)
(* trend and momentum of the benchmark.                                    *)

InitBudget ==
    /\ NoComponent
    /\ history = <<>>
    /\ \E q1, q2 \in {q \in MarketInputs : q.available} : reqs = <<q1, q2>>
    /\ rpc = <<"start", "start">>
    /\ work = <<NoWork, NoWork>>
    /\ outcome = <<{}, {}>>
    /\ page = <<>>

NextBudget == \E r \in DOMAIN reqs : ServeMarket(r)

SpecBudget == InitBudget /\ [][NextBudget]_vars

\* the second benchmark is at least as strong as the first in trend
\* (price against ma200) and in momentum, at the same volatility
NotWeaker(q1, q2) ==
    /\ q1.benchmark.volatility = q2.benchmark.volatility
    /\ q1.price - q1.benchmark.ma200 <= q2.price - q2.benchmark.ma200
    /\ q1.benchmark.momentum_60d <= q2.benchmark.momentum_60d

RegimesOf(o) == o.market_regime \cup {g.regime : g \in o.regime_state}

\* the outcome says that its regime is a fallback of low confidence
LowConfidence(o) ==
    \E g \in o.regime_state :
        /\ "low_confidence" \in DOMAIN g.signals
        /\ g.signals.low_confidence

\* the regime the RegimeEngine computes from the benchmark as of a date
ComputedRegimes(date) ==
    UNION {{RegimeEngine(bi, CurrentPrice(b), date).regime :
               bi \in IndicatorEngine(b)} : b \in BarsFor(Benchmark, date)}

----------------------------------------------------------------------------
(* Price histories with a zero close: a bar the engine may divide by.      *)

\* how far before the evaluation bar the zero close lies: next to the
\* window of the returns, next to the bar of the momentum, and at the
\* evaluation bar itself
HoleOffsets == Around(VolWindow) \cup Around(MomentumLag) \cup Around(1)

HoleSeries ==
    {Series(LongWindow + MomentumLag + 1, "hole", k, 1) : k \in HoleOffsets}

InitGuard ==
    /\ NoComponent
    /\ \E a \in HoleSeries,
          m \in HoleSeries
                   \cup {Series(LongWindow + MomentumLag + 1, "flat", 1, 1)} :
          history = [s \in {"AAPL", Benchmark} |->
                        IF s = "AAPL" THEN {a} ELSE {m}]
    /\ \E q \in {[op |-> "analyze", symbol |-> "AAPL",
                  date |-> LongWindow + MomentumLag + 1],
                 [op |-> "marketStatus", symbol |-> Benchmark,
                  date |-> LongWindow + MomentumLag + 1]} :
          reqs = <<q>>
    /\ rpc = <<"start">>
    /\ work = <<NoWork>>
    /\ outcome = <<{}>>
    /\ page = <<>>

SpecGuard == InitGuard /\ [][NextAnalyze]_vars

\* no field of the IndicatorSet is NaN or an infinity
FiniteIndicators(i) ==
    /\ i.ma20 # NotFinite /\ i.ma50 # NotFinite /\ i.ma200 # NotFinite
    /\ i.momentum_60d # NotFinite
    /\ i.volatility # NotFinite
    /\ i.atr14 # NotFinite
    /\ i.rsi14 # NotFinite
    /\ i.macd # NotFinite /\ i.macd_signal # NotFinite
    /\ i.macd_hist # NotFinite
    /\ i.bollinger_upper # NotFinite /\ i.bollinger_lower # NotFinite

FiniteRegime(g) ==
    /\ g.risk_budget # NotFinite
    /\ g.signals.momentum_60d # NotFinite
    /\ g.signals.volatility # NotFinite

\* a close that is a denominator of the momentum or of one of the last 20
\* returns of the symbol's series is zero
DividesByZero(symbol, date) ==
    \E b \in BarsFor(symbol, date) :
        /\ Len(b) >= 200
        /\ \E k \in (1..20) \cup {60} : b[Len(b) - k].close = 0

----------------------------------------------------------------------------
(* The stock page.  Strings are sequences of characters, so that           *)
(* toUpperCase and trim are computed and not assumed.                      *)

\* String.prototype.toUpperCase, on the characters the inputs are made of
UpperChar(c) ==
    CASE c = "a" -> "A"
      [] c = "b" -> "B"
      [] OTHER -> c
\* (variant: the string is left as typed)
ToUpperCaseIdentity(str) == str
ToUpperCase(str) == [i \in 1..Len(str) |-> UpperChar(str[i])]

\* how often the route changes while the page stays mounted
MaxNavigations == 2

\* the values of the route parameter [symbol]
StockRoutes == {<<"a">>, <<"A">>, <<"b">>}

\* const symbol = (params.symbol as string)?.toUpperCase()
StockSymbol(p) == ToUpperCase(p.param)

\* new Error(`股票 ${symbol} 未找到`), with the symbol of the effect that
\* issued the fetch
NotFoundMessage(symbol) == [text |-> "not found", symbol |-> symbol]

\* if (!res.ok) throw ...: what the first then throws for a response
\* (variant: the status is not looked at)
ThrowUnlessOkMissing(symbol, ok) == {}
ThrowUnlessOk(symbol, ok) == IF ok THEN {} ELSE {NotFoundMessage(symbol)}

\* .finally(() => setLoading(false)), after a chain that ended in setData
\* (failed = FALSE) or in setError (failed = TRUE)
\* (variant: .then instead of .finally, which a failed chain skips)
FinallyAsThen(p, failed) ==
    IF failed THEN p ELSE [p EXCEPT !.loading = FALSE]
Finally(p, failed) == [p EXCEPT !.loading = FALSE]

\* the three render branches: if (loading) ... if (error) ... return content
\* (variant: the error is looked at first)
ViewErrorFirst(p) ==
    IF p.error # {} THEN "error"
    ELSE IF p.loading THEN "loading"
    ELSE "content"
View(p) ==
    IF p.loading THEN "loading"
    ELSE IF p.error # {} THEN "error"
    ELSE "content"

\* a fetch has ended: it leaves the fetches in flight and enters the log
Settled(p, f, result) ==
    [p EXCEPT !.fetches = @ \ {f},
              !.log = Append(@, [id |-> f.id, symbol |-> f.symbol,
                                 result |-> result])]

\* useState(null), useState(true), useState(null); no effect has run
\* (typed: what was typed into the search box of the home page, when the
\* page was reached from there)
StockMounted(param) ==
    [kind |-> "stock", param |-> param, deps |-> {}, loading |-> TRUE,
     error |-> {}, data |-> {}, fetches |-> {}, log |-> <<>>, navs |-> 0,
     typed |-> {}]

\* the route changes and the page renders with the new parameter; the
\* effect of the previous render has run by then
Navigate(param) ==
    /\ page.kind = "stock"
    /\ page.navs < MaxNavigations
    /\ page.deps = {StockSymbol(page)}
    /\ param # page.param
    /\ page' = [page EXCEPT !.param = param, !.navs = @ + 1]
    /\ UNCHANGED <<history, reqs, rpc, work, outcome>>
    /\ UNCHANGED componentVars

\* useEffect(..., [symbol]): runs after the first render and after every
\* render in which symbol has changed; an earlier fetch is not cancelled
StockEffect ==
    /\ page.kind = "stock"
    /\ page.deps # {StockSymbol(page)}
    /\ IF StockSymbol(page) = <<>>
       THEN page' = [page EXCEPT !.deps = {StockSymbol(page)}]
       ELSE page' = [page EXCEPT
                        !.deps = {StockSymbol(page)},
                        !.loading = TRUE,
                        !.fetches = @ \cup
                            {[id |-> Len(page.log) + Cardinality(@) + 1,
                              symbol |-> StockSymbol(page),
                              stage |-> "sent"]}]
    /\ UNCHANGED <<history, reqs, rpc, work, outcome>>
    /\ UNCHANGED componentVars

\* the fetch rejects (network failure): catch, then finally
StockRejected(f) ==
    /\ page.kind = "stock"
    /\ f.stage = "sent"
    /\ page' = Finally(Settled([page EXCEPT !.error =
                                   {[text |-> "Failed to fetch",
                                     symbol |-> <<>>]}],
                               f, "rejected"),
                       TRUE)
    /\ UNCHANGED <<history, reqs, rpc, work, outcome>>
    /\ UNCHANGED componentVars

\* the response arrives: the first then throws for a status that is not
\* OK (catch, then finally), or hands on res.json()
StockResponds(f, ok) ==
    /\ page.kind = "stock"
    /\ f.stage = "sent"
    /\ LET thrown == ThrowUnlessOk(f.symbol, ok) IN
       IF thrown # {}
       THEN page' = Finally(Settled([page EXCEPT !.error = thrown],
                                    f, "not ok"),
                            TRUE)
       ELSE page' = [page EXCEPT !.fetches =
                        (@ \ {f}) \cup {[f EXCEPT !.stage =
                                            IF ok THEN "body"
                                            ELSE "error body"]}]
    /\ UNCHANGED <<history, reqs, rpc, work, outcome>>
    /\ UNCHANGED componentVars

\* res.json() settles: then(setData) or, for a body that does not parse,
\* catch; finally in both cases
StockJson(f, parses) ==
    /\ page.kind = "stock"
    /\ f.stage \in {"body", "error body"}
    /\ IF parses
       THEN page' = Finally(Settled([page EXCEPT !.data =
                                        {[symbol |-> f.symbol,
                                          ok |-> f.stage = "body"]}],
                                    f,
                                    IF f.stage = "body" THEN "ok"
                                    ELSE "not ok"),
                            FALSE)
       ELSE page' = Finally(Settled([page EXCEPT !.error =
                                        {[text |-> "Unexpected token",
                                          symbol |-> <<>>]}],
                                    f, "parse"),
                            TRUE)
    /\ UNCHANGED <<history, reqs, rpc, work, outcome>>
    /\ UNCHANGED componentVars

InitStock ==
    /\ NoComponent
    /\ history = <<>>
    /\ reqs = <<>>
    /\ rpc = <<>>
    /\ work = <<>>
    /\ outcome = <<>>
    /\ \E param \in StockRoutes \cup {<<>>} : page = StockMounted(param)

\* a fetch in flight moves on
StockProgress ==
    /\ page.kind = "stock"
    /\ \E f \in page.fetches :
        \/ StockRejected(f)
        \/ \E ok \in BOOLEAN : StockResponds(f, ok)
        \/ \E parses \in BOOLEAN : StockJson(f, parses)

NextStock ==
    \/ \E param \in StockRoutes : Navigate(param)
    \/ StockEffect
    \/ StockProgress

SpecStock == InitStock /\ [][NextStock]_vars

\* React runs a due effect, and the browser settles every fetch
SpecStockFair ==
    /\ InitStock
    /\ [][NextStock]_vars
    /\ WF_vars(StockEffect)
    /\ WF_vars(StockProgress)

----------------------------------------------------------------------------
(* Properties of the stock page.                                           *)

InFlight(id) == \E f \in page.fetches : f.id = id

\* the last entry of the log, if the step has added one
JustSettled(before, after) ==
    IF Len(after.log) = Len(before.log) + 1
    THEN {after.log[Len(after.log)]}
    ELSE {}

\* C24: loading starts true; every fetch the effect issues ends, however
\* the request ends, with loading false; and the spinner is the view
\* exactly while loading is true.
C24_LoadingEnds ==
    /\ page.loading
    /\ [](page.loading <=> View(page) = "loading")
    /\ \A id \in 1..(MaxNavigations + 1) :
          [](InFlight(id) => <>(~InFlight(id) /\ ~page.loading))

\* three fetches have ended, in a parse failure, a rejection and one more
\* way, and loading is false
C24_Witness ==
    /\ page.kind = "stock"
    /\ Len(page.log) = 3
    /\ \E i, j \in DOMAIN page.log :
          page.log[i].result = "parse" /\ page.log[j].result = "rejected"
    /\ \E k \in DOMAIN page.log : page.log[k].result \in {"ok", "not ok"}
    /\ ~page.loading
    /\ page.error # {}

\* C25: a response with a status that is not OK sets error to the
\* not-found message of the symbol fetched and leaves data as it was; the
\* error view is shown when loading has ended; data is set only from a
\* response with an OK status.
C25_NotOkSetsErrorOnly ==
    [][/\ \A e \in JustSettled(page, page') :
             e.result = "not ok" =>
                 /\ page'.error = {NotFoundMessage(e.symbol)}
                 /\ page'.data = page.data
                 /\ ~page'.loading
                 /\ View(page') = "error"
       /\ page'.data # page.data =>
             \E e \in JustSettled(page, page') :
                 /\ e.result = "ok"
                 /\ page'.data = {[symbol |-> e.symbol, ok |-> TRUE]}]_vars

\* the fetch of the second symbol has got a status that is not OK: the
\* error names that symbol and the data of the first symbol is still held
C25_Witness ==
    /\ page.kind = "stock"
    /\ Len(page.log) = 2
    /\ page.log[1].result = "ok"
    /\ page.log[2].result = "not ok"
    /\ page.log[2].symbol # page.log[1].symbol
    /\ page.error = {NotFoundMessage(page.log[2].symbol)}
    /\ page.data = {[symbol |-> page.log[1].symbol, ok |-> TRUE]}
    /\ View(page) = "error"

\* C26: when the symbol of the route has changed while a fetch was in
\* flight, the content view, once shown, shows the data of the symbol of
\* the route.
C26_ContentIsOfRouteSymbol ==
    (/\ page.deps = {StockSymbol(page)}
     /\ View(page) = "content")
        => \A d \in page.data : d.symbol = StockSymbol(page)

\* C27: after a failed fetch for one symbol and a later successful fetch
\* for another symbol the content view of the later symbol is shown.
C27_ContentAfterEarlierFailure ==
    \A i, j \in DOMAIN page.log :
        (/\ j = Len(page.log)
         /\ page.log[i].id < page.log[j].id
         /\ i < j
         /\ page.log[i].result # "ok"
         /\ page.log[j].result = "ok"
         /\ page.log[i].symbol # page.log[j].symbol
         /\ page.log[j].symbol = StockSymbol(page)
         /\ page.deps = {StockSymbol(page)}
         /\ page.fetches = {})
            => /\ View(page) = "content"
               /\ page.data = {[symbol |-> page.log[j].symbol, ok |-> TRUE]}

----------------------------------------------------------------------------
(* The three pages that fetch: one of them is mounted.                     *)

InitPages == InitStock \/ InitMarket \/ InitPicks

NextPages == NextStock \/ NextMarket \/ NextPicks

SpecPages == InitPages /\ [][NextPages]_vars

\* C28: on the market page and the picks page a request that ends with a
\* status that is not OK sets error and shows the error view, and data is
\* not set from the body of that response.
C28_NonOkIsError ==
    \A r \in DOMAIN reqs :
        (/\ page.kind = "fetch once"
         /\ rpc[r] = "failed"
         /\ ~page.loading)
            => /\ page.error # {}
               /\ View(page) = "error"
               /\ page.data \cap outcome[r] = {}

\* C29: on each of the three pages one view is rendered, loading before
\* error before content; the content view is rendered only when loading
\* is false and error is null, and data is then not null.
C29_OneViewByPriority ==
    /\ page.loading => View(page) = "loading"
    /\ (~page.loading /\ page.error # {}) => View(page) = "error"
    /\ View(page) = "content" =>
          /\ ~page.loading
          /\ page.error = {}
          /\ page.data # {}
    /\ page.kind = "fetch once" =>
          (page.view # {} <=> View(page) = "content")

\* the stock page shows the content of a second symbol after the content
\* of a first one: not loading, no error, data held
C29_Witness ==
    /\ page.kind = "stock"
    /\ View(page) = "content"
    /\ Len(page.log) = 2
    /\ page.log[1].symbol # page.log[2].symbol
    /\ page.data = {[symbol |-> page.log[2].symbol, ok |-> TRUE]}

----------------------------------------------------------------------------
(* The home page: a search box and a form; submitting pushes the route of  *)
(* the stock page.                                                         *)

MaxInput == 3
MaxSubmits == 2

\* the characters that can be typed
HomeChars == {"a", "B", " "}

\* String.prototype.trim: white space off both ends
RECURSIVE TrimStart(_)
TrimStart(str) ==
    IF str # <<>> /\ Head(str) = " " THEN TrimStart(Tail(str)) ELSE str
RECURSIVE TrimEnd(_)
TrimEnd(str) ==
    IF str # <<>> /\ str[Len(str)] = " "
    THEN TrimEnd(SubSeq(str, 1, Len(str) - 1))
    ELSE str
Trim(str) == TrimEnd(TrimStart(str))

\* useState("")
HomeMounted == [kind |-> "home", symbol |-> <<>>, submits |-> 0]

\* onChange: setSymbol(e.target.value)
TypeChar(c) ==
    /\ page.kind = "home"
    /\ Len(page.symbol) < MaxInput
    /\ page' = [page EXCEPT !.symbol = Append(@, c)]
    /\ UNCHANGED <<history, reqs, rpc, work, outcome>>
    /\ UNCHANGED componentVars

\* handleSearch: if (symbol.trim()) router.push(`/stock/${...}`); the stock
\* page mounts on the route pushed
HandleSearch ==
    /\ page.kind = "home"
    /\ page.submits < MaxSubmits
    /\ IF Trim(page.symbol) # <<>>
       THEN page' = [StockMounted(ToUpperCase(page.symbol)) EXCEPT
                        !.typed = {page.symbol}]
       ELSE page' = [page EXCEPT !.submits = @ + 1]
    /\ UNCHANGED <<history, reqs, rpc, work, outcome>>
    /\ UNCHANGED componentVars

InitHome ==
    /\ NoComponent
    /\ history = <<>>
    /\ reqs = <<>>
    /\ rpc = <<>>
    /\ work = <<>>
    /\ outcome = <<>>
    /\ page = HomeMounted

NextHome ==
    \/ \E c \in HomeChars : TypeChar(c)
    \/ HandleSearch
    \/ StockEffect
    \/ StockProgress

SpecHome == InitHome /\ [][NextHome]_vars

\* the lower-case letters and their capitals
LetterPairs == {<<"a", "A">>, <<"b", "B">>}

\* up is str with every lower-case letter replaced by its capital
IsUpperCased(up, str) ==
    /\ Len(up) = Len(str)
    /\ \A i \in 1..Len(str) :
          IF \E l \in LetterPairs : l[1] = str[i]
          THEN <<str[i], up[i]>> \in LetterPairs
          ELSE up[i] = str[i]

Blank(str) == \A i \in 1..Len(str) : str[i] = " "

\* C30: submitting the search form with an empty or white-space input
\* does not navigate; submitting any other input navigates once, to the
\* stock route of the input in upper case, and the stock page requests
\* the symbol in upper case.
C30_SearchNavigatesNonBlank ==
    /\ [][page.kind = "home" =>
             /\ page'.kind = "stock" =>
                   /\ ~Blank(page.symbol)
                   /\ IsUpperCased(page'.param, page.symbol)
                   /\ page'.typed = {page.symbol}
                   /\ page'.navs = 0
             /\ (page'.kind = "home" /\ page'.submits # page.submits) =>
                   /\ Blank(page.symbol)
                   /\ page'.symbol = page.symbol]_vars
    /\ [](page.kind = "stock" =>
             \A t \in page.typed :
                 /\ IsUpperCased(page.param, t)
                 /\ \A f \in page.fetches : IsUpperCased(f.symbol, t)
                 /\ \A k \in DOMAIN page.log :
                       IsUpperCased(page.log[k].symbol, t)
                 /\ \A d \in page.data : IsUpperCased(d.symbol, t))

\* " aB" was typed and submitted, and the stock page holds the data it
\* requested for " AB"
C30_Witness ==
    /\ page.kind = "stock"
    /\ page.typed = {<<" ", "a", "B">>}
    /\ page.param = <<" ", "A", "B">>
    /\ page.data = {[symbol |-> <<" ", "A", "B">>, ok |-> TRUE]}
    /\ Len(page.log) = 1

====
